---- MODULE Spec2Model ----
(***************************************************************************)
(* SoloPay backend (index.js): the temporary PDF store, the HTTP handlers  *)
(* that write, read and delete it, the hourly sweep, the parsing of the    *)
(* model's answer into an analysis object, the prompt builders and the     *)
(* spreadsheet renderers.                                                  *)
(*                                                                         *)
(* Five specifications share the module:                                   *)
(*   Spec        the handlers and the sweep running against the store;     *)
(*   SpecLive    Spec with the timer firing again and again;               *)
(*   SpecParse   the answer-parsing code of /api/analyze-text and          *)
(*               /api/process-pdf applied to every answer text of a        *)
(*               bounded length;                                           *)
(*   SpecReport  /api/generate-report applied to every analysis of a       *)
(*               bounded shape;                                            *)
(*   SpecPrompt  the prompt builders applied to texts of the lengths       *)
(*               around the ones they compare with.                        *)
(***************************************************************************)
EXTENDS Integers, Sequences, FiniteSets, Bags, TLC

VARIABLES
  store,        \* temp directory: session id -> stored blob, or NoFile
  nextSession,  \* how many ids generateSessionId has handed out
  requests,     \* how many requests the server has received
  writes,       \* history: number of saveTemporaryFile calls per id
  badTries,     \* history: unlock-pdf requests per id that the password
                \* did not open
  consumed,     \* history: bag of <<id, version>>, one copy per process-pdf
                \* request that extracted the text of that blob
  unlinked,     \* history: the <<id, version>> that process-pdf deleted
  inflight,     \* bag of requests suspended at an await
  last,         \* the request answered last, with its response
  now,          \* Date.now(), in ms
  sweep,        \* the setInterval callback: position and locals
  ptext,        \* SpecParse: the answer text under test
  presult,      \* SpecParse: endpoint -> analysis obtained from ptext
  rbody,        \* SpecReport: the body of a /api/generate-report request
  ranswer,      \* SpecReport: the response to it
  qbody,        \* SpecPrompt: the body of an analysis request
  qresult       \* SpecPrompt: endpoint -> prompt built and type echoed

vars == <<store, nextSession, requests, writes, badTries, consumed, unlinked,
          inflight, last, now, sweep, ptext, presult, rbody, ranswer, qbody,
          qresult>>

storeVars == <<store, nextSession, requests, writes, badTries, consumed,
               unlinked, inflight, last, now, sweep>>
histVars == <<writes, badTries, consumed, unlinked>>
reportVars == <<rbody, ranswer>>
promptVars == <<qbody, qresult>>
\* the variables of the specifications of the pure functions
parseVars == <<ptext, presult, reportVars, promptVars>>

-----------------------------------------------------------------------------
(* Bounds of the model *)

\* requests the server receives in one run
MaxRequests == 3
\* clock ticks of the sweep age (one hour) each
MaxTicks == 2
\* tokens of an answer text in SpecParse
MaxLen == 5
\* entries of an array or object of an analysis in SpecReport
MaxRows == 2
\* how far the text lengths of SpecPrompt lie from the lengths the prompt
\* builders compare with
MaxDelta == 8

-----------------------------------------------------------------------------
(* Answer texts.  A text is a sequence of tokens; a token stands for the   *)
(* characters the two regular expressions and JSON.parse tell apart:       *)
(*   "F"  ```json      (the opening fence; it starts with three backticks) *)
(*   "T"  ```          (three backticks not followed by json)              *)
(*   "{" "}"           braces                                              *)
(*   "k"  "a":         an object key with its colon                        *)
(*   "1"               a digit                                             *)
(*   " "               white space                                         *)

Tokens == {"F", "T", "{", "}", "k", "1", " "}

\* the texts of n tokens
TextsOfLen(n) == [1..n -> Tokens]

Texts == UNION {TextsOfLen(n) : n \in 0..MaxLen}

Min(a, b) == IF a < b THEN a ELSE b

\* String.prototype.substring(from, to) with 0-based from, exclusive to
Substring(s, from, to) == SubSeq(s, from + 1, Min(to, Len(s)))

\* String.prototype.trim
RECURSIVE TrimLeft(_)
TrimLeft(s) ==
  IF s # <<>> /\ Head(s) = " " THEN TrimLeft(Tail(s)) ELSE s

RECURSIVE TrimRight(_)
TrimRight(s) ==
  IF s # <<>> /\ s[Len(s)] = " " THEN TrimRight(SubSeq(s, 1, Len(s) - 1)) ELSE s

Trim(s) == TrimRight(TrimLeft(s))

\* positions of s holding a token of set cs
Positions(s, cs) == {i \in 1..Len(s) : s[i] \in cs}

SetMin(S) == CHOOSE m \in S : \A x \in S : m <= x
SetMax(S) == CHOOSE m \in S : \A x \in S : x <= m

(* JSON.parse.  The values of the token language are numbers (a run of     *)
(* digits), the empty object and an object of one member whose value is a  *)
(* JSON value; white space may surround every value and brace.             *)

RECURSIVE SkipWs(_, _)
SkipWs(s, i) ==
  IF i <= Len(s) /\ s[i] = " " THEN SkipWs(s, i + 1) ELSE i

RECURSIVE SkipDigits(_, _)
SkipDigits(s, i) ==
  IF i <= Len(s) /\ s[i] = "1" THEN SkipDigits(s, i + 1) ELSE i

\* the position after the JSON value that starts at i, or 0 when none does
RECURSIVE ValueEnd(_, _)
ValueEnd(s, i) ==
  IF i > Len(s) THEN 0
  ELSE IF s[i] = "1" THEN SkipDigits(s, i)
  ELSE IF s[i] = "{" THEN
    LET j == SkipWs(s, i + 1) IN
    IF j > Len(s) THEN 0
    ELSE IF s[j] = "}" THEN j + 1
    ELSE IF s[j] = "k" THEN
      LET v == ValueEnd(s, SkipWs(s, j + 1)) IN
      IF v = 0 THEN 0
      ELSE LET e == SkipWs(s, v) IN
           IF e <= Len(s) /\ s[e] = "}" THEN e + 1 ELSE 0
    ELSE 0
  ELSE 0

\* whether JSON.parse(s) returns (TRUE) or throws a SyntaxError (FALSE)
JSONParses(s) ==
  LET e == ValueEnd(s, SkipWs(s, 1)) IN
  e # 0 /\ SkipWs(s, e) = Len(s) + 1

\* the value JSON.parse(s) returns: the tokens of s without the white space
JSONValue(s) == SelectSeq(s, LAMBDA c : c # " ")


-----------------------------------------------------------------------------
(* The parsing of the model's answer, index.js lines 92-121 and 371-393 *)

\* analysisText.match(/```json([\s\S]*?)```/) finds a match: an opening
\* fence with three backticks somewhere after it (those of a second
\* opening fence included)
FenceMatches(s) ==
  \E i \in Positions(s, {"F"}) : \E j \in Positions(s, {"F", "T"}) : j > i

\* jsonMatch[1]: the lazy group, from the leftmost opening fence to the
\* nearest three backticks after it
FenceGroup(s) ==
  LET i == SetMin(Positions(s, {"F"}))
      j == SetMin({p \in Positions(s, {"F", "T"}) : p > i})
  IN  SubSeq(s, i + 1, j - 1)

\* analysisText.match(/\{[\s\S]*\}/) finds a match
BraceMatches(s) ==
  \E i \in Positions(s, {"{"}) : \E j \in Positions(s, {"}"}) : j > i

\* fallbackMatch[0]: the greedy match, from the first "{" to the last "}"
BraceGroup(s) ==
  LET i == SetMin(Positions(s, {"{"}))
      j == SetMax(Positions(s, {"}"}))
  IN  SubSeq(s, i, j)

Parsed(s) == [ok |-> TRUE, value |-> JSONValue(s)]
Thrown == [ok |-> FALSE, value |-> <<>>]

\* a parse that takes whatever the regular expression matched
TryParseLoose(s) == Parsed(s)

\* JSON.parse inside the try block: the value, or a throw
TryParse(s) == IF JSONParses(s) THEN Parsed(s) ELSE Thrown

ExtractJSONBraceFirst(text) ==
  IF BraceMatches(text) THEN TryParse(BraceGroup(text))
  ELSE IF FenceMatches(text) /\ FenceGroup(text) # <<>>
  THEN TryParse(Trim(FenceGroup(text)))
  ELSE Thrown

\* the try block of both handlers (lines 93-106 and 372-385)
ExtractJSON(text) ==
  IF FenceMatches(text) /\ FenceGroup(text) # <<>>
  THEN TryParse(Trim(FenceGroup(text)))
  ELSE IF BraceMatches(text) THEN TryParse(BraceGroup(text))
  ELSE Thrown

\* characters of the answer kept in rawResponse
RawResponseLimit == 1000

EmptyObject == <<>>

\* the object of the catch block of /api/analyze-text (lines 110-120)
AnalyzeTextSentinel(text) ==
  [summary |-> [totalDeposits |-> 0, totalWithdrawals |-> 0, netFlow |-> 0,
                error |-> "Analysis completed but formatting failed"],
   categories |-> EmptyObject,
   alerts |-> <<"Analysis completed but data formatting failed">>,
   rawResponse |-> Substring(text, 0, RawResponseLimit)]

\* the object of the catch block of /api/process-pdf (lines 389-392)
ProcessPdfSentinel(text) ==
  [summary |-> [error |-> "Analysis completed but formatting failed"],
   rawResponse |-> Substring(text, 0, RawResponseLimit)]

\* `analysis` of /api/analyze-text after lines 92-121
AnalyzeTextAnalysis(text) ==
  LET r == ExtractJSON(text) IN
  IF r.ok THEN [json |-> r.value] ELSE AnalyzeTextSentinel(text)

\* `analysis` of /api/process-pdf after lines 371-393
ProcessPdfAnalysis(text) ==
  LET r == ExtractJSON(text) IN
  IF r.ok THEN [json |-> r.value] ELSE ProcessPdfSentinel(text)

Endpoints == {"analyze-text", "process-pdf"}

NotParsed == [none |-> TRUE]

AnalysisOf(e, text) ==
  IF e = "analyze-text" THEN AnalyzeTextAnalysis(text)
  ELSE ProcessPdfAnalysis(text)

\* an endpoint parses the answer text
ParseAnswer(e) ==
  /\ presult[e] = NotParsed
  /\ presult' = [presult EXCEPT ![e] = AnalysisOf(e, ptext)]
  /\ UNCHANGED <<ptext, storeVars, reportVars, promptVars>>


-----------------------------------------------------------------------------
(* The temporary store and the values the handlers pass around *)

\* age in ms beyond which the sweep deletes a file (line 790)
SweepAge == 3600000
\* the clock advances in steps of the sweep age
TickMs == SweepAge

\* A session id is session_<n>, or session_<n>_unlocked after an unlock.
SessionIds == [n : 1..MaxRequests, unlocked : BOOLEAN]

\* a request body without sessionId
NoId == [n |-> 0, unlocked |-> FALSE]

\* an id the server never handed out
StrayId == [n |-> MaxRequests + 1, unlocked |-> FALSE]

\* the ids handed out so far, with their derived ids
Issued == {sid \in SessionIds : sid.n <= nextSession}

\* an id generator that repeats itself
GenerateSessionIdStale == [n |-> 1, unlocked |-> FALSE]

\* generateSessionId (lines 466-468) joins Date.now() and nine random
\* characters; the model hands out n = 1, 2, ... so that ids never collide.
GenerateSessionId == [n |-> nextSession + 1, unlocked |-> FALSE]

\* `${sessionId}_unlocked` (lines 294 and 299)
Unlocked(sid) == [n |-> sid.n, unlocked |-> TRUE]

\* what a PDF's bytes are to PDFDocument.load: a document without
\* encryption ("plain"), a document encrypted under DocPassword ("enc"),
\* or no PDF at all ("corrupt")
Uploads == {"plain", "enc", "corrupt"}
DocPassword == "alpha"
Passwords == {"alpha", "beta"}
NoPassword == ""

NoFile == [pdf |-> "none", ver |-> 0, mtime |-> 0]
File(pdf, ver, mtime) == [pdf |-> pdf, ver |-> ver, mtime |-> mtime]

\* words of an Error's message that the handlers search for
LoadOk == {"ok"}
EncryptedError == {"encrypted"}
OtherError == {}
\* no error was thrown / the body has no `details`
NoDetails == {"none"}
\* messages a PDF library may give a failed open with a wrong password
WrongPasswordErrors == {{"password"}, {"encrypted"}}
\* messages a failed save may carry: pdfDoc.save(), fs.mkdir and
\* fs.writeFile word them, and the fs ones quote the path of the file
SaveErrors == {OtherError, {"password"}, {"encrypted"}}

PDFDocumentLoadAnyPassword(pdf, password, wrongMsg) ==
  IF pdf \in {"plain", "enc"} /\ password # NoPassword THEN LoadOk
  ELSE IF pdf = "enc" THEN EncryptedError
  ELSE IF pdf = "plain" THEN LoadOk
  ELSE OtherError

\* PDFDocument.load(pdfBuffer) of lines 165 and 222, and
\* PDFDocument.load(pdfBuffer, { password }) of line 290: LoadOk, or the
\* words of the message of the error thrown.  wrongMsg is the message the
\* library gives when the password does not open the document.
PDFDocumentLoad(pdf, password, wrongMsg) ==
  IF pdf = "plain" THEN LoadOk
  ELSE IF pdf = "enc" THEN
    IF password = NoPassword THEN EncryptedError
    ELSE IF password = DocPassword THEN LoadOk
    ELSE wrongMsg
  ELSE OtherError

\* a lookup that still answers with the bytes last written after the file
\* has been deleted
GetTemporaryFileStale(sid) ==
  IF sid \in DOMAIN store /\ writes[sid] > 0
  THEN File("plain", writes[sid], 0)
  ELSE NoFile

\* getTemporaryFile (lines 478-486): the bytes, or null (NoFile)
GetTemporaryFile(sid) ==
  IF sid \in DOMAIN store THEN store[sid] ELSE NoFile

\* saveTemporaryFile (lines 470-476): the store after the write
SaveTemporaryFile(sid, pdf) ==
  [store EXCEPT ![sid] = File(pdf, writes[sid] + 1, now)]

DeleteTemporaryFileNoop(sid) == store

\* deleteTemporaryFile (lines 488-496): the store after the unlink; an
\* unlink of a file that is gone throws inside and is swallowed
DeleteTemporaryFile(sid) ==
  IF sid \in DOMAIN store THEN [store EXCEPT ![sid] = NoFile] ELSE store

NoAnalysis == [none |-> TRUE]

\* the answer of the model when the model was not called or its call failed
NoText == <<"none">>

\* a workbook: whether building it threw, and its sheets in order, each
\* with a name and its data rows
Workbook(sheets) == [thrown |-> FALSE, sheets |-> sheets]
NoWorkbook == Workbook(<<>>)
\* a TypeError thrown while the workbook is built
WorkbookThrown == [thrown |-> TRUE, sheets |-> <<>>]

\* the request answered last: what it carried, what the handler read
\* (buf), which call failed (fault) with which message (error) and what
\* the model answered (text), and the response: the HTTP code and the
\* fields of the JSON body (status, sessionId, analysis, passwordRequired,
\* details)
Answer(op, sid, password, buf, fault, code, status, sessionId, analysis) ==
  [op |-> op, sid |-> sid, password |-> password, buf |-> buf, fault |-> fault,
   error |-> NoDetails, text |-> NoText,
   code |-> code, status |-> status, sessionId |-> sessionId,
   analysis |-> analysis, passwordRequired |-> "none", details |-> NoDetails,
   workbook |-> NoWorkbook]

HandlerCatchNoDetails(op, sid, password, buf, fault, msg) ==
  [Answer(op, sid, password, buf, fault, 500, "none", NoId, NoAnalysis)
     EXCEPT !.error = msg]

\* the catch block at the end of every handler (lines 130-136, 198-204,
\* 255-261, 312-318, 402-408, 443-449): status 500 and error.message as
\* `details`
HandlerCatch(op, sid, password, buf, fault, msg) ==
  [Answer(op, sid, password, buf, fault, 500, "none", NoId, NoAnalysis)
     EXCEPT !.error = msg, !.details = msg]

NoAnswer == Answer("none", NoId, NoPassword, NoFile, "none", 0, "none", NoId,
                   NoAnalysis)

\* a request suspended at an await
Pending(op, pc, sid, password, buf) ==
  [op |-> op, pc |-> pc, sid |-> sid, password |-> password, buf |-> buf]

Suspend(r) == inflight (+) SetToBag({r})
\* a continuation that stays suspended after it has run
ResumeKept(r) == inflight
Resume(r) == inflight (-) SetToBag({r})
InFlight == BagToSet(inflight)

\* a request arrives: the observer has taken the previous response and the
\* run has requests left
Arrives ==
  /\ last = NoAnswer
  /\ requests < MaxRequests
  /\ requests' = requests + 1

SweepIdle == [pc |-> "idle", snap |-> 0, files |-> {}, cur |-> NoId]

\* answers of the model the handlers are run on: an object, and text that
\* has braces but no JSON in it
SampleTexts == {<<"{", "}">>, <<"{", "k", "}">>}

InitStore ==
  /\ store = [sid \in SessionIds |-> NoFile]
  /\ nextSession = 0
  /\ requests = 0
  /\ writes = [sid \in SessionIds |-> 0]
  /\ badTries = [sid \in SessionIds |-> 0]
  /\ consumed = EmptyBag
  /\ unlinked = {}
  /\ inflight = EmptyBag
  /\ last = NoAnswer
  /\ now = 0
  /\ sweep = SweepIdle

-----------------------------------------------------------------------------
(* POST /api/check-pdf and POST /api/check-pdf-url *)

\* lines 163-197 and 220-254: the open without a password, the save under
\* a new id and the response.  upload is what the bytes are; saveFails is
\* whether the save throws and saveMsg the message it throws with.  The
\* inner catch (lines 179-196, 236-253) receives what the open or the save
\* of the inner try throws: on a message that holds 'encrypted' it saves
\* under a new id and answers 'password_required'; retryFails is whether
\* that second save throws too.  A save that throws inside the inner catch
\* goes to the outer catch.  The id generated for a save that failed is
\* not used again; the model hands the same n to the next call.
CheckBytes(op, upload, saveFails, saveMsg, retryFails) ==
  LET opened == PDFDocumentLoad(upload, NoPassword, OtherError)
      sid == GenerateSessionId
      buf == File(upload, 0, 0)
      required == [Answer(op, NoId, NoPassword, buf, "none", 200,
                          "password_required", sid, NoAnalysis)
                     EXCEPT !.passwordRequired = "true"]
  IN
  IF opened = LoadOk
  THEN /\ nextSession' = nextSession + 1
       /\ IF ~saveFails
          THEN /\ store' = SaveTemporaryFile(sid, upload)
               /\ writes' = [writes EXCEPT ![sid] = @ + 1]
               /\ last' = [Answer(op, NoId, NoPassword, buf, "none", 200,
                                  "success", sid, NoAnalysis)
                             EXCEPT !.passwordRequired = "false"]
          ELSE IF "encrypted" \in saveMsg /\ ~retryFails
          THEN /\ store' = SaveTemporaryFile(sid, upload)
               /\ writes' = [writes EXCEPT ![sid] = @ + 1]
               /\ last' = [required EXCEPT !.fault = "save", !.error = saveMsg]
          ELSE /\ last' = HandlerCatch(op, NoId, NoPassword, buf, "save", saveMsg)
               /\ UNCHANGED <<store, writes>>
  ELSE IF "encrypted" \in opened
  THEN /\ nextSession' = nextSession + 1
       /\ IF saveFails
          THEN /\ last' = HandlerCatch(op, NoId, NoPassword, buf, "save", saveMsg)
               /\ UNCHANGED <<store, writes>>
          ELSE /\ store' = SaveTemporaryFile(sid, upload)
               /\ writes' = [writes EXCEPT ![sid] = @ + 1]
               /\ last' = required
  ELSE /\ last' = HandlerCatch(op, NoId, NoPassword, buf, "load", opened)
       /\ UNCHANGED <<store, writes, nextSession>>

\* POST /api/check-pdf (lines 210-262)
CheckPdf(hasFile, upload, saveFails, saveMsg, retryFails) ==
  /\ Arrives
  /\ IF ~hasFile
     THEN /\ last' = Answer("check-pdf", NoId, NoPassword, NoFile, "none",
                            400, "none", NoId, NoAnalysis)
          /\ UNCHANGED <<store, writes, nextSession>>
     ELSE CheckBytes("check-pdf", upload, saveFails, saveMsg, retryFails)
  /\ UNCHANGED <<badTries, consumed, unlinked, inflight, now, sweep, parseVars>>

\* POST /api/check-pdf-url (lines 142-205)
CheckPdfUrl(hasUrl, downloadOk, upload, saveFails, saveMsg, retryFails) ==
  /\ Arrives
  /\ IF ~hasUrl
     THEN /\ last' = Answer("check-pdf-url", NoId, NoPassword, NoFile, "none",
                            400, "none", NoId, NoAnalysis)
          /\ UNCHANGED <<store, writes, nextSession>>
     ELSE IF ~downloadOk
     THEN /\ last' = HandlerCatch("check-pdf-url", NoId, NoPassword, NoFile,
                                  "download", OtherError)
          /\ UNCHANGED <<store, writes, nextSession>>
     ELSE CheckBytes("check-pdf-url", upload, saveFails, saveMsg, retryFails)
  /\ UNCHANGED <<badTries, consumed, unlinked, inflight, now, sweep, parseVars>>

-----------------------------------------------------------------------------
(* POST /api/unlock-pdf *)

\* lines 271-286: the validation and the read of the stored bytes
UnlockPdf(sid, password) ==
  LET buf == GetTemporaryFile(sid) IN
  /\ Arrives
  /\ IF sid = NoId \/ password = NoPassword
     THEN /\ last' = Answer("unlock-pdf", sid, password, NoFile, "none",
                            400, "none", NoId, NoAnalysis)
          /\ UNCHANGED inflight
     ELSE IF buf = NoFile
     THEN /\ last' = Answer("unlock-pdf", sid, password, NoFile, "none",
                            404, "none", NoId, NoAnalysis)
          /\ UNCHANGED inflight
     ELSE /\ inflight' = Suspend(Pending("unlock-pdf", "load", sid, password, buf))
          /\ UNCHANGED last
  /\ UNCHANGED <<store, nextSession, histVars, now, sweep, parseVars>>

\* lines 288-318: the open with the password, the save of the unlocked
\* bytes under the derived id and the response.  wrongMsg is the message
\* of the library for a password that does not open the document;
\* saveFails is whether pdfDoc.save() or saveTemporaryFile throws and
\* saveMsg the message it throws with.  The inner catch (lines 302-311)
\* receives what any of the three calls throws and answers 401 when the
\* message holds 'password'.
UnlockPdfLoad(r, wrongMsg, saveFails, saveMsg) ==
  LET opened == PDFDocumentLoad(r.buf.pdf, r.password, wrongMsg)
      target == Unlocked(r.sid)
  IN
  /\ last = NoAnswer
  /\ r \in InFlight
  /\ r.op = "unlock-pdf"
  /\ inflight' = Resume(r)
  /\ IF opened = LoadOk
     THEN /\ IF saveFails
             THEN /\ last' = IF "password" \in saveMsg
                             THEN [Answer("unlock-pdf", r.sid, r.password, r.buf,
                                          "save", 401, "invalid_password", NoId,
                                          NoAnalysis)
                                     EXCEPT !.error = saveMsg]
                             ELSE HandlerCatch("unlock-pdf", r.sid, r.password,
                                               r.buf, "save", saveMsg)
                  /\ UNCHANGED <<store, writes>>
             ELSE /\ store' = SaveTemporaryFile(target, "plain")
                  /\ writes' = [writes EXCEPT ![target] = @ + 1]
                  /\ last' = Answer("unlock-pdf", r.sid, r.password, r.buf, "none",
                                    200, "success", target, NoAnalysis)
          /\ UNCHANGED badTries
     ELSE /\ last' = IF "password" \in opened
                     THEN [Answer("unlock-pdf", r.sid, r.password, r.buf, "load",
                                  401, "invalid_password", NoId, NoAnalysis)
                             EXCEPT !.error = opened]
                     ELSE HandlerCatch("unlock-pdf", r.sid, r.password, r.buf,
                                       "load", opened)
          /\ badTries' = [badTries EXCEPT ![r.sid] = @ + 1]
          /\ UNCHANGED <<store, writes>>
  /\ UNCHANGED <<nextSession, requests, consumed, unlinked, now, sweep, parseVars>>

-----------------------------------------------------------------------------
(* POST /api/process-pdf *)

\* lines 328-336: the read of the stored bytes
ProcessPdf(sid) ==
  LET buf == GetTemporaryFile(sid) IN
  /\ Arrives
  /\ IF buf = NoFile
     THEN /\ last' = Answer("process-pdf", sid, NoPassword, NoFile, "none",
                            404, "none", NoId, NoAnalysis)
          /\ UNCHANGED inflight
     ELSE /\ inflight' = Suspend(Pending("process-pdf", "extract", sid, NoPassword, buf))
          /\ UNCHANGED last
  /\ UNCHANGED <<store, nextSession, histVars, now, sweep, parseVars>>

\* a handler that a failed delete takes to its catch
ProcessPdfExtractStrict(r, extractOk) ==
  /\ last = NoAnswer
  /\ r \in InFlight
  /\ r.op = "process-pdf"
  /\ r.pc = "extract"
  /\ IF extractOk /\ store[r.sid] # NoFile
     THEN /\ store' = DeleteTemporaryFile(r.sid)
          /\ consumed' = consumed (+) SetToBag({<<r.sid, r.buf.ver>>})
          /\ unlinked' = unlinked \cup {<<r.sid, store[r.sid].ver>>}
          /\ inflight' = Resume(r) (+) SetToBag({[r EXCEPT !.pc = "model"]})
          /\ UNCHANGED last
     ELSE /\ last' = HandlerCatch("process-pdf", r.sid, NoPassword, r.buf,
                                  IF extractOk THEN "delete" ELSE "extract",
                                  OtherError)
          /\ inflight' = Resume(r)
          /\ UNCHANGED <<store, consumed, unlinked>>
  /\ UNCHANGED <<nextSession, requests, writes, badTries, now, sweep, parseVars>>

\* lines 338-345: the text extraction, then the delete of the stored bytes
ProcessPdfExtract(r, extractOk) ==
  /\ last = NoAnswer
  /\ r \in InFlight
  /\ r.op = "process-pdf"
  /\ r.pc = "extract"
  /\ IF extractOk
     THEN /\ store' = DeleteTemporaryFile(r.sid)
          /\ consumed' = consumed (+) SetToBag({<<r.sid, r.buf.ver>>})
          /\ unlinked' = IF store[r.sid] = NoFile THEN unlinked
                         ELSE unlinked \cup {<<r.sid, store[r.sid].ver>>}
          /\ inflight' = Resume(r) (+) SetToBag({[r EXCEPT !.pc = "model"]})
          /\ UNCHANGED last
     ELSE /\ last' = HandlerCatch("process-pdf", r.sid, NoPassword, r.buf,
                                  "extract", OtherError)
          /\ inflight' = Resume(r)
          /\ UNCHANGED <<store, consumed, unlinked>>
  /\ UNCHANGED <<nextSession, requests, writes, badTries, now, sweep, parseVars>>

\* lines 347-408: the call of the model, the parsing of its answer and
\* the response
ProcessPdfModel(r, modelOk, text) ==
  /\ last = NoAnswer
  /\ r \in InFlight
  /\ r.op = "process-pdf"
  /\ r.pc = "model"
  /\ inflight' = Resume(r)
  /\ last' = IF modelOk
             THEN [Answer("process-pdf", r.sid, NoPassword, r.buf, "none",
                          200, "success", NoId, ProcessPdfAnalysis(text))
                     EXCEPT !.text = text]
             ELSE HandlerCatch("process-pdf", r.sid, NoPassword, r.buf, "model",
                               OtherError)
  /\ UNCHANGED <<store, nextSession, requests, histVars, now, sweep, parseVars>>

-----------------------------------------------------------------------------
(* POST /api/analyze-text (lines 55-137) *)

AnalyzeText(hasText, modelOk, text) ==
  /\ Arrives
  /\ last' = IF ~hasText
             THEN Answer("analyze-text", NoId, NoPassword, NoFile, "none",
                         400, "none", NoId, NoAnalysis)
             ELSE IF ~modelOk
             THEN HandlerCatch("analyze-text", NoId, NoPassword, NoFile, "model",
                               OtherError)
             ELSE [Answer("analyze-text", NoId, NoPassword, NoFile, "none",
                          200, "success", NoId, AnalyzeTextAnalysis(text))
                     EXCEPT !.text = text]
  /\ UNCHANGED <<store, nextSession, histVars, inflight, now, sweep, parseVars>>

-----------------------------------------------------------------------------
(* POST /api/settings (lines 455-460) *)

\* req.body.email: an address, or nothing
Emails == {"absent", "a@b.c"}

\* a handler that writes the email down, under the first session id
SettingsSaved(email) ==
  /\ Arrives
  /\ last' = Answer("settings", NoId, NoPassword, NoFile, "none",
                    200, "success", NoId, NoAnalysis)
  /\ store' = [store EXCEPT ![[n |-> 1, unlocked |-> FALSE]] =
                                File(email, 0, now)]
  /\ UNCHANGED <<nextSession, histVars, inflight, now, sweep, parseVars>>

\* the email is logged and the request acknowledged
Settings(email) ==
  /\ Arrives
  /\ last' = Answer("settings", NoId, NoPassword, NoFile, "none",
                    200, "success", NoId, NoAnalysis)
  /\ UNCHANGED <<store, nextSession, histVars, inflight, now, sweep, parseVars>>

-----------------------------------------------------------------------------
(* POST /api/generate-report (lines 414-450) and the two renderers *)

\* req.body.documentType: a tag, or nothing
DocTypes == {"bank", "credit"}
BodyDocTypes == DocTypes \cup {"absent"}

\* An entry of an array of the analysis: null, the object {} or an object
\* that has every field the renderer reads (each with the value "v").
EntryKinds == {"null", "empty", "full"}

SeqsOfLen(S, n) == [1..n -> S]
SeqsUpTo(S, n) == UNION {SeqsOfLen(S, k) : k \in 0..n}

\* analysis.transactions and analysis.subscriptions: missing, a string, or
\* an array of entries
ArrayValues ==
  {[kind |-> k, items |-> <<>>] : k \in {"absent", "string"}}
    \cup {[kind |-> "array", items |-> it] : it \in SeqsUpTo(EntryKinds, MaxRows)}

\* analysis.summary: missing, {} or an object with every metric
SummaryValues == {"absent", "empty", "full"}

\* analysis.categories: missing, or an object whose values are null or an
\* object with total and count
CategoryValues ==
  {[kind |-> "absent", items |-> <<>>]}
    \cup {[kind |-> "object", items |-> it] :
            it \in SeqsUpTo({"null", "full"}, MaxRows)}

Analyses ==
  [transactions : ArrayValues, subscriptions : ArrayValues,
   summary : SummaryValues, categories : CategoryValues]

EmptyAnalysis ==
  [transactions |-> [kind |-> "absent", items |-> <<>>],
   subscriptions |-> [kind |-> "absent", items |-> <<>>],
   summary |-> "absent",
   categories |-> [kind |-> "absent", items |-> <<>>]]

\* the bodies of /api/generate-report: with an analysis, or without one
ReportBodies ==
  [hasAnalysis : {TRUE}, analysis : Analyses, documentType : BodyDocTypes]
    \cup [hasAnalysis : {FALSE}, analysis : {EmptyAnalysis},
          documentType : BodyDocTypes]

\* t.field of an entry that is not null
Get(t, field) == IF t = "full" THEN "v" ELSE "undefined"

\* x || d
OrDefault(x, d) == IF x = "undefined" THEN d ELSE x

\* analysis.x && Array.isArray(analysis.x)
IsArray(a) == a.kind = "array"

\* forEach over the entries reads a field of a null entry: TypeError
ReadsNull(items) == \E i \in 1..Len(items) : items[i] = "null"

\* sheet.addRow(t) against the sheet's column keys: a cell per key the
\* entry has, no cell for the others (none at all for null)
AddRow(t, keys) ==
  [k \in keys |-> IF Get(t, k) = "undefined" THEN "unset" ELSE Get(t, k)]

Sheet(name, rows) == [name |-> name, rows |-> rows]

\* lines 672-683: one row per transaction, each field defaulted
BankTransactionRows(a) ==
  IF IsArray(a.transactions)
  THEN [i \in 1..Len(a.transactions.items) |->
          LET t == a.transactions.items[i] IN
          [date |-> OrDefault(Get(t, "date"), "''"),
           description |-> OrDefault(Get(t, "description"), "''"),
           debit |-> OrDefault(Get(t, "debit"), "0"),
           credit |-> OrDefault(Get(t, "credit"), "0"),
           balance |-> OrDefault(Get(t, "balance"), "0"),
           category |-> OrDefault(Get(t, "category"), "''")]]
  ELSE <<>>

SummaryRow(metric, value) == [metric |-> metric, value |-> value]

\* lines 693-699: the five metric rows, written only if there is a summary
BankSummaryRows(a) ==
  IF a.summary = "absent" THEN <<>>
  ELSE [i \in 1..5 |->
          SummaryRow(<<"Total Deposits", "Total Withdrawals", "Net Flow",
                       "Transaction Count", "Average Daily Spending">>[i],
                     OrDefault(Get(a.summary, "metric"), "0"))]

\* lines 702-712: the blank row, the heading and one row per category
BankCategoryRows(a) ==
  <<SummaryRow("''", "''"), SummaryRow("Category Breakdown", "''")>>
    \o (IF a.categories.kind = "absent" THEN <<>>
        ELSE [i \in 1..Len(a.categories.items) |->
                SummaryRow("CATEGORY",
                           OrDefault(Get(a.categories.items[i], "total"), "0"))])

\* createBankStatementExcel (lines 659-713)
CreateBankStatementExcel(a) ==
  IF IsArray(a.transactions) /\ ReadsNull(a.transactions.items)
  THEN WorkbookThrown
  ELSE IF a.categories.kind # "absent" /\ ReadsNull(a.categories.items)
  THEN WorkbookThrown
  ELSE Workbook(<<Sheet("All Transactions", BankTransactionRows(a)),
                  Sheet("Summary", BankSummaryRows(a) \o BankCategoryRows(a))>>)

TransactionKeys == {"date", "merchant", "amount", "category"}
SubscriptionKeys == {"merchant", "amount", "frequency", "category"}

\* lines 725-729 and 740-744: one addRow per entry of the array
AddedRows(v, keys) ==
  IF IsArray(v) THEN [i \in 1..Len(v.items) |-> AddRow(v.items[i], keys)]
  ELSE <<>>

\* lines 753-757: the three metric rows, written only if there is a summary
CreditSummaryRows(a) ==
  IF a.summary = "absent" THEN <<>>
  ELSE [i \in 1..3 |->
          SummaryRow(<<"Total Spent", "Payment Made", "Outstanding Balance">>[i],
                     OrDefault(Get(a.summary, "metric"), "0"))]

CreateCreditCardExcelOneSheet(a) ==
  Workbook(<<Sheet("Transactions",
                   AddedRows(a.transactions, TransactionKeys)
                     \o AddedRows(a.subscriptions, SubscriptionKeys)),
             Sheet("Subscriptions", <<>>),
             Sheet("Summary", CreditSummaryRows(a))>>)

\* createCreditCardExcel (lines 715-758)
CreateCreditCardExcel(a) ==
  Workbook(<<Sheet("Transactions", AddedRows(a.transactions, TransactionKeys)),
             Sheet("Subscriptions", AddedRows(a.subscriptions, SubscriptionKeys)),
             Sheet("Summary", CreditSummaryRows(a))>>)

\* the handler (lines 417-449): the validation, the renderer chosen by
\* documentType, the write of the buffer and the response.  writeFails is
\* whether workbook.xlsx.writeBuffer() throws.
GenerateReportAnswer(body, writeFails) ==
  LET wb == IF body.documentType = "bank"
            THEN CreateBankStatementExcel(body.analysis)
            ELSE CreateCreditCardExcel(body.analysis)
  IN
  IF ~body.hasAnalysis
  THEN Answer("generate-report", NoId, NoPassword, NoFile, "none",
              400, "none", NoId, NoAnalysis)
  ELSE IF wb.thrown
  THEN HandlerCatch("generate-report", NoId, NoPassword, NoFile, "render",
                    OtherError)
  ELSE IF writeFails
  THEN HandlerCatch("generate-report", NoId, NoPassword, NoFile, "write",
                    OtherError)
  ELSE [Answer("generate-report", NoId, NoPassword, NoFile, "none",
               200, "none", NoId, NoAnalysis)
          EXCEPT !.workbook = wb]

\* bodies of /api/generate-report the server is run on
SampleReportBodies ==
  {[hasAnalysis |-> h, analysis |-> EmptyAnalysis, documentType |-> "bank"] :
     h \in BOOLEAN}

\* a handler that keeps a copy of the report in the temp directory
GenerateReportKept(body, writeFails) ==
  /\ Arrives
  /\ last' = GenerateReportAnswer(body, writeFails)
  /\ store' = [store EXCEPT ![[n |-> 1, unlocked |-> FALSE]] =
                                File("plain", 0, now)]
  /\ UNCHANGED <<nextSession, histVars, inflight, now, sweep, parseVars>>

\* POST /api/generate-report as a request to the running server
GenerateReport(body, writeFails) ==
  /\ Arrives
  /\ last' = GenerateReportAnswer(body, writeFails)
  /\ UNCHANGED <<store, nextSession, histVars, inflight, now, sweep, parseVars>>

NotRendered == Answer("none", NoId, NoPassword, NoFile, "none", 0, "none", NoId,
                      NoAnalysis)

\* SpecReport: the request of rbody is answered
RenderReport(writeFails) ==
  /\ ranswer = NotRendered
  /\ ranswer' = GenerateReportAnswer(rbody, writeFails)
  /\ UNCHANGED <<rbody, storeVars, ptext, presult, promptVars>>

-----------------------------------------------------------------------------
(* The prompt builders (lines 498-657) and the choice between them *)

\* text.length above which the text is trimmed (lines 507 and 590)
TrimThreshold == 500000
\* characters kept at each end of a trimmed text (lines 508-509, 591-592)
TrimWindow == 100000
\* text.length above which a bank statement is large (line 501)
LargeTextLength == 100000
\* number of dates above which a bank statement is large (line 501)
LargeTransactionCount == 200
\* characters of a match of /\d{2}\/\d{2}\/\d{4}/ (line 500)
DateLength == 10

\* A text is known by its length: its characters are the positions
\* 0 .. len-1.  A piece of a prompt is a run of characters of the text,
\* [from, to), or the omission marker.
Piece(from, to) == [marker |-> FALSE, from |-> from, to |-> to]
OmissionMarker == [marker |-> TRUE, from |-> 0, to |-> 0]

Clamp(x, len) == IF x < 0 THEN 0 ELSE IF x > len THEN len ELSE x

\* text.substring(from, to) of a text of len characters
TextSubstring(len, from, to) ==
  LET a == Clamp(from, len)
      b == Clamp(to, len)
  IN  IF a <= b THEN Piece(a, b) ELSE Piece(b, a)

\* text lengths around 0 and around the lengths the builders compare with
PromptLengths ==
  (0..MaxDelta)
    \cup ((TrimWindow - MaxDelta)..(TrimWindow + MaxDelta))
    \cup ((2 * TrimWindow - 1)..(2 * TrimWindow + 1))
    \cup ((TrimThreshold - MaxDelta)..(TrimThreshold + MaxDelta))

\* textToAnalyze of getBankStatementPrompt (lines 504-514)
BankTextToAnalyze(len) ==
  IF len > TrimThreshold
  THEN <<TextSubstring(len, 0, TrimWindow), OmissionMarker,
         TextSubstring(len, len - TrimWindow, len)>>
  ELSE <<Piece(0, len)>>

\* a builder that calls a statement large by the length of its text only
GetBankStatementPromptByLength(len, dates) ==
  [template |-> "bank",
   onlyLargest |-> len > LargeTextLength,
   text |-> BankTextToAnalyze(len)]

\* getBankStatementPrompt (lines 498-585): the template, the rule chosen
\* by isLargeStatement and the text embedded
GetBankStatementPrompt(len, dates) ==
  [template |-> "bank",
   onlyLargest |-> (dates > LargeTransactionCount \/ len > LargeTextLength),
   text |-> BankTextToAnalyze(len)]

GetCreditCardPromptFromThreshold(len, dates) ==
  [template |-> "credit",
   onlyLargest |-> FALSE,
   text |-> IF len >= TrimThreshold
            THEN <<TextSubstring(len, 0, TrimWindow), OmissionMarker,
                   TextSubstring(len, len - TrimWindow, len)>>
            ELSE <<Piece(0, len)>>]

\* getCreditCardPrompt (lines 587-657)
GetCreditCardPrompt(len, dates) ==
  [template |-> "credit",
   onlyLargest |-> FALSE,
   text |-> IF len > TrimThreshold
            THEN <<TextSubstring(len, 0, TrimWindow), OmissionMarker,
                   TextSubstring(len, len - TrimWindow, len)>>
            ELSE <<Piece(0, len)>>]

\* the bodies of the analysis requests: the two tags a client may send,
\* and the text (of the body, or extracted from the stored PDF) by its
\* length and the number of dates in it (text.match finds matches that
\* do not overlap, so a text of len characters holds at most
\* len / DateLength of them)
PromptBodies ==
  {b \in [documentType : BodyDocTypes, type : BodyDocTypes, len : PromptLengths,
          dates : {0, LargeTransactionCount, LargeTransactionCount + 1}] :
     b.dates * DateLength <= b.len}

NotBuilt == [built |-> FALSE]

\* /api/analyze-text, lines 59 and 83-85 and 123-128: the prompt and the
\* documentType of the response
AnalyzeTextPrompt(body) ==
  [built |-> TRUE,
   prompt |-> IF body.documentType = "bank"
              THEN GetBankStatementPrompt(body.len, body.dates)
              ELSE GetCreditCardPrompt(body.len, body.dates),
   documentType |-> body.documentType,
   textLength |-> body.len]

\* /api/process-pdf, lines 328 and 362-364 and 395-400: the prompt and the
\* documentType of the response
ProcessPdfPrompt(body) ==
  [built |-> TRUE,
   prompt |-> IF body.type = "bank"
              THEN GetBankStatementPrompt(body.len, body.dates)
              ELSE GetCreditCardPrompt(body.len, body.dates),
   documentType |-> body.type,
   textLength |-> body.len]

\* SpecPrompt: an endpoint builds the prompt for the request of qbody
BuildPrompt(e) ==
  /\ qresult[e] = NotBuilt
  /\ qresult' = [qresult EXCEPT ![e] = IF e = "analyze-text"
                                       THEN AnalyzeTextPrompt(qbody)
                                       ELSE ProcessPdfPrompt(qbody)]
  /\ UNCHANGED <<qbody, storeVars, ptext, presult, reportVars>>

-----------------------------------------------------------------------------
(* The sweep of lines 777-798 and the clock *)

Tick ==
  /\ last = NoAnswer
  /\ now < MaxTicks * TickMs
  /\ now' = now + TickMs
  /\ UNCHANGED <<store, nextSession, requests, histVars, inflight, last, sweep,
                 parseVars>>

\* the timer fires: fs.readdir and Date.now() (lines 780-782)
SweepStart ==
  /\ last = NoAnswer
  /\ sweep.pc = "idle"
  /\ sweep' = [pc |-> "stat", snap |-> now,
               files |-> {sid \in SessionIds : store[sid] # NoFile},
               cur |-> NoId]
  /\ UNCHANGED <<store, nextSession, requests, histVars, inflight, last, now,
                 parseVars>>

\* the loop is over (line 794)
SweepEnd ==
  /\ last = NoAnswer
  /\ sweep.pc = "stat"
  /\ sweep.files = {}
  /\ sweep' = SweepIdle
  /\ UNCHANGED <<store, nextSession, requests, histVars, inflight, last, now,
                 parseVars>>

\* fs.stat of the next listed file and the age test (lines 785-790); a
\* stat of a file that is gone throws into the catch of line 795, which
\* ends the sweep
SweepStat(sid) ==
  /\ last = NoAnswer
  /\ sweep.pc = "stat"
  /\ sid \in sweep.files
  /\ sweep' = IF store[sid] = NoFile THEN SweepIdle
              ELSE IF sweep.snap - store[sid].mtime > SweepAge
              THEN [sweep EXCEPT !.pc = "unlink", !.cur = sid,
                                 !.files = @ \ {sid}]
              ELSE [sweep EXCEPT !.files = @ \ {sid}]
  /\ UNCHANGED <<store, nextSession, requests, histVars, inflight, last, now,
                 parseVars>>

\* a sweep that finds the file old and leaves it
SweepUnlinkSkip ==
  /\ last = NoAnswer
  /\ sweep.pc = "unlink"
  /\ sweep' = [sweep EXCEPT !.pc = "stat", !.cur = NoId]
  /\ UNCHANGED <<store, nextSession, requests, histVars, inflight, last, now,
                 parseVars>>

\* fs.unlink of the file found old (line 791); an unlink of a file that
\* is gone throws into the catch of line 795
SweepUnlink ==
  /\ last = NoAnswer
  /\ sweep.pc = "unlink"
  /\ IF store[sweep.cur] = NoFile
     THEN /\ sweep' = SweepIdle
          /\ UNCHANGED store
     ELSE /\ store' = [store EXCEPT ![sweep.cur] = NoFile]
          /\ sweep' = [sweep EXCEPT !.pc = "stat", !.cur = NoId]
  /\ UNCHANGED <<nextSession, requests, histVars, inflight, last, now, parseVars>>

\* What the environment decides about one request, each case once: a
\* choice that the handler never reads on the path taken is left at its
\* first value.

\* the saves of a check or unlock request: none fails, the save fails
\* with one of the messages, or (check only) the save of the inner try
\* fails as 'encrypted' and the one of the inner catch fails too
SaveCases ==
  {[saveFails |-> FALSE, saveMsg |-> OtherError, retryFails |-> FALSE]}
  \cup {[saveFails |-> TRUE, saveMsg |-> m, retryFails |-> FALSE] : m \in SaveErrors}
  \cup {[saveFails |-> TRUE, saveMsg |-> EncryptedError, retryFails |-> TRUE]}

\* a check request: no file (no url), a download that fails, bytes that
\* are no PDF, or a PDF with the outcome of its save
CheckCases ==
  {[has |-> FALSE, downloadOk |-> TRUE, upload |-> "plain", save |-> c] :
     c \in {x \in SaveCases : ~x.saveFails}}
  \cup {[has |-> TRUE, downloadOk |-> FALSE, upload |-> "plain", save |-> c] :
          c \in {x \in SaveCases : ~x.saveFails}}
  \cup {[has |-> TRUE, downloadOk |-> TRUE, upload |-> "corrupt", save |-> c] :
          c \in {x \in SaveCases : ~x.saveFails}}
  \cup {[has |-> TRUE, downloadOk |-> TRUE, upload |-> "plain", save |-> c] :
          c \in SaveCases}
  \cup {[has |-> TRUE, downloadOk |-> TRUE, upload |-> "enc", save |-> c] :
          c \in {x \in SaveCases : ~x.retryFails}}

\* the open and the save of an unlock request
UnlockCases ==
  {[wrongMsg |-> w, save |-> c] :
     w \in WrongPasswordErrors, c \in {x \in SaveCases : ~x.saveFails}}
  \cup {[wrongMsg |-> {"password"}, save |-> c] :
          c \in {x \in SaveCases : x.saveFails /\ ~x.retryFails}}

\* a call of the model: it fails, or it answers one of the texts
ModelCases ==
  {[modelOk |-> FALSE, text |-> NoText]}
  \cup {[modelOk |-> TRUE, text |-> t] : t \in SampleTexts}

\* the response reaches the client: the observer takes it before it looks
\* at the next step
Deliver ==
  /\ last # NoAnswer
  /\ last' = NoAnswer
  /\ UNCHANGED <<store, nextSession, requests, histVars, inflight, now, sweep,
                 parseVars>>

-----------------------------------------------------------------------------
(* The specifications *)

\* the pure-function specifications at rest
IdleParse ==
  /\ ptext = <<>>
  /\ presult = [e \in Endpoints |-> NotParsed]

IdleReport ==
  /\ rbody = [hasAnalysis |-> FALSE, analysis |-> EmptyAnalysis,
              documentType |-> "absent"]
  /\ ranswer = NotRendered

IdlePrompt ==
  /\ qbody = [documentType |-> "absent", type |-> "absent", len |-> 0,
              dates |-> 0]
  /\ qresult = [e \in Endpoints |-> NotBuilt]

Init ==
  /\ InitStore
  /\ IdleParse
  /\ IdleReport
  /\ IdlePrompt

Next ==
  \/ \E c \in {x \in CheckCases : x.downloadOk} :
       CheckPdf(c.has, c.upload, c.save.saveFails, c.save.saveMsg,
                c.save.retryFails)
  \/ \E c \in CheckCases :
       CheckPdfUrl(c.has, c.downloadOk, c.upload, c.save.saveFails,
                   c.save.saveMsg, c.save.retryFails)
  \/ \E sid \in {s \in Issued : ~s.unlocked} \cup {StrayId, NoId},
        password \in Passwords \cup {NoPassword} :
       UnlockPdf(sid, password)
  \/ \E r \in InFlight, c \in UnlockCases :
       UnlockPdfLoad(r, c.wrongMsg, c.save.saveFails, c.save.saveMsg)
  \/ \E sid \in Issued \cup {StrayId, NoId} : ProcessPdf(sid)
  \/ \E r \in InFlight, extractOk \in BOOLEAN : ProcessPdfExtract(r, extractOk)
  \/ \E r \in InFlight, c \in ModelCases :
       ProcessPdfModel(r, c.modelOk, c.text)
  \/ \E hasText \in BOOLEAN, c \in ModelCases :
       (hasText \/ ~c.modelOk) /\ AnalyzeText(hasText, c.modelOk, c.text)
  \/ \E body \in SampleReportBodies, writeFails \in BOOLEAN :
       GenerateReport(body, writeFails)
  \/ \E email \in Emails : Settings(email)
  \/ Tick
  \/ SweepStart
  \/ \E sid \in SessionIds : SweepStat(sid)
  \/ SweepUnlink
  \/ SweepEnd
  \/ Deliver

Spec == Init /\ [][Next]_vars

\* a step of the setInterval callback
SweepRuns ==
  \/ SweepStart
  \/ \E sid \in SessionIds : SweepStat(sid)
  \/ SweepUnlink
  \/ SweepEnd

\* The timer keeps firing and the callback runs to its end (setInterval,
\* line 798), the clock advances, and responses are taken.  Nothing is
\* assumed of the requests.
SweepFairness ==
  /\ WF_vars(Tick)
  /\ WF_vars(SweepRuns)
  /\ WF_vars(Deliver)

SpecLive == Spec /\ SweepFairness

InitParse ==
  /\ InitStore
  /\ ptext \in Texts
  /\ presult = [e \in Endpoints |-> NotParsed]
  /\ IdleReport
  /\ IdlePrompt

NextParse == \E e \in Endpoints : ParseAnswer(e)

SpecParse == InitParse /\ [][NextParse]_vars

InitReport ==
  /\ InitStore
  /\ IdleParse
  /\ rbody \in ReportBodies
  /\ ranswer = NotRendered
  /\ IdlePrompt

NextReport == \E writeFails \in BOOLEAN : RenderReport(writeFails)

SpecReport == InitReport /\ [][NextReport]_vars

InitPrompt ==
  /\ InitStore
  /\ IdleParse
  /\ IdleReport
  /\ qbody \in PromptBodies
  /\ qresult = [e \in Endpoints |-> NotBuilt]

NextPrompt == \E e \in Endpoints : BuildPrompt(e)

SpecPrompt == InitPrompt /\ [][NextPrompt]_vars

-----------------------------------------------------------------------------
(* Claims about the temporary store (checked under Spec) *)

\* The step is the answer of an unlock-pdf request that carried a password
\* other than the one the stored encrypted blob opens with.
WrongPasswordAnswer ==
  /\ last = NoAnswer
  /\ last'.op = "unlock-pdf"
  /\ last'.buf.pdf = "enc"
  /\ last'.password # DocPassword

\* C1: for every stored (encrypted) blob and every incorrect password,
\* unlock-pdf answers 401 with status 'invalid_password', never 500, and
\* the response carries no new sessionId.
C1_WrongPasswordIs401 ==
  (last.op = "unlock-pdf" /\ last.buf.pdf = "enc" /\ last.password # DocPassword)
    => (last.code = 401 /\ last.status = "invalid_password" /\ last.sessionId = NoId)

\* C2: a wrong-password unlock-pdf leaves the store unchanged, and an
\* unlock-pdf that found the encrypted blob and carries its password answers
\* 200 'success' with the id <sessionId>_unlocked, under which a blob is
\* stored (the save itself not failing), however many wrong-password
\* attempts came before.
C2_CorrectUnlockSucceeds ==
  (/\ last.op = "unlock-pdf"
   /\ last.buf.pdf = "enc"
   /\ last.password = DocPassword
   /\ last.fault # "save")
    => (/\ last.code = 200
        /\ last.status = "success"
        /\ last.sessionId = [n |-> last.sid.n, unlocked |-> TRUE]
        /\ store[last.sessionId] # NoFile)

C3_NoBlobOfUploadLeft ==
  (last.op = "process-pdf" /\ last.code = 200)
    => \A sid \in SessionIds : sid.n = last.sid.n => store[sid] = NoFile

\* C4 as stated: whenever process-pdf found the blob (it answers anything
\* other than 404), the blob of that session id is gone from the store when
\* the response is sent, whatever the status.
C4_BlobDeletedWhateverStatus ==
  (last.op = "process-pdf" /\ last.code # 404) => store[last.sid] = NoFile

\* C4 as amended: whenever process-pdf found the blob and extracted its
\* text (it answers 200, or 500 because the model call failed), the blob it
\* read is gone from the store when the response is sent.
C4_ExtractedBlobDeleted ==
  (last.op = "process-pdf" /\ last.code # 404 /\ last.fault # "extract")
    => (store[last.sid] = NoFile \/ store[last.sid].ver # last.buf.ver)

\* C4 witness: process-pdf answered 500 after the extraction (the model
\* call failed) and the session's blob is gone.
C4_Witness ==
  /\ last.op = "process-pdf"
  /\ last.code = 500
  /\ last.fault = "model"
  /\ store[last.sid] = NoFile

\* C5: every session id is written to the store at most once, the derived
\* <sessionId>_unlocked id of a repeated correct unlock included.
C5_EveryIdWrittenOnce ==
  \A sid \in SessionIds : writes[sid] <= 1

\* C6 as stated: the blob stored under a session id is consumed by at most
\* one process-pdf request.
C6_ConsumedAtMostOnce ==
  \A e \in BagToSet(consumed) : CopiesIn(e, consumed) <= 1

\* the step starts the extraction of one more process-pdf request r
StartsExtraction(r) ==
  /\ r.op = "process-pdf"
  /\ r.pc = "extract"
  /\ CopiesIn(r, inflight') > CopiesIn(r, inflight)

\* C6 as amended: a process-pdf request goes on to extract exactly when its
\* lookup finds the blob in the store, and then it holds that blob; a
\* request whose lookup comes after the blob was deleted answers 404.
C6_LookupDecides ==
  [][/\ \A r \in BagToSet(inflight') :
          StartsExtraction(r) => (store[r.sid] # NoFile /\ r.buf = store[r.sid])
     /\ (last = NoAnswer /\ last'.op = "process-pdf" /\ last'.code = 404
           /\ last'.sid \in SessionIds)
          => (store[last'.sid] = NoFile /\ inflight' = inflight)
     /\ \A sid \in SessionIds :
          (store[sid] = NoFile /\ requests' = requests + 1)
            => \A r \in BagToSet(inflight') : r.sid = sid => ~StartsExtraction(r)
    ]_vars

\* C6 witness: a process-pdf request has consumed and deleted the blob of
\* a session id, and a request that came after the delete was answered 404.
C6_Witness ==
  /\ last.op = "process-pdf"
  /\ last.code = 404
  /\ last.sid \in SessionIds
  /\ \E e \in BagToSet(consumed) : e[1] = last.sid

-----------------------------------------------------------------------------
(* Claims about the parsing of the model's answer (checked under SpecParse) *)

\* a fenced block: an opening ```json with a closing ``` after it
HasFencedBlock(s) ==
  \E i \in Positions(s, {"F"}) : \E j \in Positions(s, {"T"}) : j > i

\* the content of the first fenced block: what stands between the first
\* opening fence and the first closing fence after it
FirstFencedContent(s) ==
  LET i == SetMin({p \in Positions(s, {"F"}) :
                     \E j \in Positions(s, {"T"}) : j > p})
      j == SetMin({p \in Positions(s, {"T"}) : p > i})
  IN  SubSeq(s, i + 1, j - 1)

\* the spans of s that start with "{", end with "}" and parse as JSON
ParsingSpans(s) ==
  {SubSeq(s, i, j) : <<i, j>> \in
     {ij \in (1..Len(s)) \X (1..Len(s)) :
        /\ ij[1] < ij[2]
        /\ s[ij[1]] = "{"
        /\ s[ij[2]] = "}"
        /\ JSONParses(SubSeq(s, ij[1], ij[2]))}}

\* the position of the "}" that closes the "{" opened before position j at
\* nesting depth `depth`, or 0 when it is never closed
RECURSIVE MatchFrom(_, _, _)
MatchFrom(s, j, depth) ==
  IF j > Len(s) THEN 0
  ELSE IF s[j] = "{" THEN MatchFrom(s, j + 1, depth + 1)
  ELSE IF s[j] = "}" THEN
    IF depth = 1 THEN j ELSE MatchFrom(s, j + 1, depth - 1)
  ELSE MatchFrom(s, j + 1, depth)

\* the first top-level {...} span: from the first "{" to its matching "}"
HasTopLevelSpan(s) ==
  /\ Positions(s, {"{"}) # {}
  /\ MatchFrom(s, SetMin(Positions(s, {"{"})) + 1, 1) # 0

FirstTopLevelSpan(s) ==
  LET i == SetMin(Positions(s, {"{"}))
  IN  SubSeq(s, i, MatchFrom(s, i + 1, 1))

\* no part of the text parses as JSON
NoParseableJSON(s) ==
  \A i, j \in 1..Len(s) : ~JSONParses(SubSeq(s, i, j))

IsSentinel(a) == "rawResponse" \in DOMAIN a

\* C7: when the answer holds a fenced ```json block (whose content is
\* JSON), the analysis of both endpoints is the JSON parsed from the
\* content of the first fenced block, whatever {...} spans surround it.
C7_FencedContentPreferred ==
  \A e \in Endpoints :
    (/\ presult[e] # NotParsed
     /\ HasFencedBlock(ptext)
     /\ JSONParses(FirstFencedContent(ptext)))
      => presult[e] = [json |-> JSONValue(FirstFencedContent(ptext))]

\* C7 witness: both endpoints parsed an answer whose text starts with the
\* object {} and goes on with a fenced block holding the number 1, and
\* both analyses are the number.
C7_Witness ==
  /\ Len(ptext) >= 2
  /\ ptext[1] = "{"
  /\ ptext[2] = "}"
  /\ HasFencedBlock(ptext)
  /\ Trim(FirstFencedContent(ptext)) = <<"1">>
  /\ \A e \in Endpoints : presult[e] = [json |-> <<"1">>]

\* C8: when the answer has a fenced block whose (non-empty) content does
\* not parse but the text also holds a {...} span that parses, the analysis
\* is a parsed {...} span and not the sentinel.
C8_SentinelOnlyIfNothingParses ==
  \A e \in Endpoints :
    (/\ presult[e] # NotParsed
     /\ HasFencedBlock(ptext)
     /\ FirstFencedContent(ptext) # <<>>
     /\ ~JSONParses(FirstFencedContent(ptext))
     /\ ParsingSpans(ptext) # {})
      => (/\ ~IsSentinel(presult[e])
          /\ \E span \in ParsingSpans(ptext) :
               presult[e] = [json |-> JSONValue(span)])

\* C9: when the answer has no fenced block, the candidate parsed is the
\* span from the first "{" to its matching "}": if that span is JSON, it is
\* the analysis, whatever follows it.
C9_FirstTopLevelSpanParsed ==
  \A e \in Endpoints :
    (/\ presult[e] # NotParsed
     /\ Positions(ptext, {"F"}) = {}
     /\ HasTopLevelSpan(ptext)
     /\ JSONParses(FirstTopLevelSpan(ptext)))
      => presult[e] = [json |-> JSONValue(FirstTopLevelSpan(ptext))]

\* C10: whenever the answer holds no parseable JSON, the analysis of both
\* endpoints is a sentinel with an error flag, an empty categories
\* mapping, a non-empty alerts list and at most RawResponseLimit
\* characters of the answer.
C10_SentinelShape ==
  \A e \in Endpoints :
    (presult[e] # NotParsed /\ NoParseableJSON(ptext))
      => (/\ "summary" \in DOMAIN presult[e]
          /\ "error" \in DOMAIN presult[e].summary
          /\ "categories" \in DOMAIN presult[e]
          /\ presult[e].categories = EmptyObject
          /\ "alerts" \in DOMAIN presult[e]
          /\ presult[e].alerts # <<>>
          /\ "rawResponse" \in DOMAIN presult[e]
          /\ Len(presult[e].rawResponse) <= 1000)

-----------------------------------------------------------------------------
(* Claims about the handlers' outcomes (checked under Spec) *)

\* C11: once the model call returned text, a text that holds no JSON is
\* answered by analyze-text and process-pdf with HTTP 200, status
\* 'success' and the sentinel (holding that text) as analysis, never 500.
C11_UnparseableAnswerIs200 ==
  (/\ last.op \in {"analyze-text", "process-pdf"}
   /\ last.text # NoText
   /\ NoParseableJSON(last.text))
    => (/\ last.code = 200
        /\ last.status = "success"
        /\ IsSentinel(last.analysis)
        /\ last.analysis.rawResponse = last.text)

\* C11 witness: process-pdf answered 200 for a model answer that has
\* braces but no JSON.
C11_Witness ==
  /\ last.op = "process-pdf"
  /\ last.text = <<"{", "k", "}">>
  /\ last.code = 200
  /\ IsSentinel(last.analysis)

\* the failure of the answer is the wrong password that unlock-pdf
\* answers 401
IsInvalidPassword(a) ==
  a.op = "unlock-pdf" /\ a.fault = "load" /\ "password" \in a.error

\* the failure of the answer is a save whose message holds the word the
\* inner catch of its handler searches for
SaveTakenForOpenFailure(a) ==
  /\ a.fault = "save"
  /\ \/ a.op = "unlock-pdf" /\ "password" \in a.error
     \/ a.op \in {"check-pdf", "check-pdf-url"} /\ "encrypted" \in a.error

\* the step ends the suspended request r without an answer and without a
\* next stage of it
EndsUnanswered(r) ==
  /\ CopiesIn(r, inflight') < CopiesIn(r, inflight)
  /\ last' = NoAnswer
  /\ \A r2 \in BagToSet(inflight') :
       (r2.op = r.op /\ r2.sid = r.sid)
         => CopiesIn(r2, inflight') <= CopiesIn(r2, inflight)

\* C12: every failure of a call inside a handler (download, PDF open with
\* a message that is not the wrong password's, text extraction, model
\* call, rendering or writing the spreadsheet, and a save whose message
\* holds no word an inner catch searches for) is answered with HTTP 500
\* whose `details` is the message of the error, and no request ends
\* without an answer.
C12_FailuresAnswered500 ==
  /\ []((/\ last.fault # "none"
         /\ ~IsInvalidPassword(last)
         /\ ~SaveTakenForOpenFailure(last))
          => (/\ last.code = 500
              /\ last.error # NoDetails
              /\ last.details = last.error))
  /\ [][\A r \in BagToSet(inflight) : ~EndsUnanswered(r)]_vars

\* C12 witness: the model call of a process-pdf request failed and the
\* request was answered 500 with the message.
C12_Witness ==
  /\ last.op = "process-pdf"
  /\ last.fault = "model"
  /\ last.code = 500
  /\ last.details = last.error

\* the request answered by `a` missed a required input
MissesInput(a) ==
  \/ a.op = "unlock-pdf" /\ (a.sid = NoId \/ a.password = NoPassword)
  \/ a.op = "process-pdf" /\ a.sid = NoId
  \/ a.op = "check-pdf" /\ a.buf = NoFile
  \/ a.op = "check-pdf-url" /\ a.buf = NoFile /\ a.fault = "none"
  \/ a.op = "analyze-text" /\ a.text = NoText /\ a.fault = "none"
  \/ a.op = "generate-report" /\ a.workbook = NoWorkbook /\ a.fault = "none"

\* C13: every request that misses a required input is answered with HTTP
\* 400 and changes nothing in the store.
C13_MissingInputIs400 ==
  [][(last = NoAnswer /\ last' # NoAnswer /\ MissesInput(last'))
       => (last'.code = 400 /\ store' = store)]_vars

\* the blob the store holds under sid, or NoFile
Stored(sid) == IF sid \in SessionIds THEN store[sid] ELSE NoFile

\* the step starts one more suspended request r
Starts(r) == CopiesIn(r, inflight') > CopiesIn(r, inflight)

\* C14: an unlock-pdf (with a password) or process-pdf request for a
\* session id that has no blob in the store is answered 404 and leaves the
\* store unchanged: no request for such an id gets past the lookup.
C14_NoBlobIs404 ==
  [][/\ \A r \in BagToSet(inflight') :
          (Starts(r) /\ r.pc \in {"load", "extract"}) => Stored(r.sid) # NoFile
     /\ (/\ requests' = requests + 1
         /\ last'.op \in {"unlock-pdf", "process-pdf"}
         /\ last'.code # 400
         /\ Stored(last'.sid) = NoFile)
          => (last'.code = 404 /\ store' = store)
     /\ (requests' = requests + 1 /\ last'.code = 404)
          => (Stored(last'.sid) = NoFile /\ inflight' = inflight)
    ]_vars

\* C14 witness: unlock-pdf answered 404 for a session id whose blob the
\* sweep removed.
C14_Witness ==
  /\ last.op = "unlock-pdf"
  /\ last.code = 404
  /\ last.sid \in SessionIds
  /\ writes[last.sid] = 1
  /\ \A e \in unlinked : e[1] # last.sid
  /\ store[last.sid] = NoFile

\* the step stores exactly one new blob, of the bytes `pdf`, under sid
StoresOneNewBlob(sid, pdf) ==
  /\ sid \in SessionIds
  /\ store[sid] = NoFile
  /\ writes[sid] = 0
  /\ store'[sid] # NoFile
  /\ store'[sid].pdf = pdf
  /\ \A other \in SessionIds \ {sid} : store'[other] = store[other]

-----------------------------------------------------------------------------
(* Claims about the prompts (checked under SpecPrompt) *)

\* the text a built prompt embeds
Embedded(e) == qresult[e].prompt.text

\* C15: for both document types, a text longer than 500000 characters is
\* embedded as its first 100000 characters, the omission marker and its
\* last 100000 characters, never in full; a text of at most 500000
\* characters is embedded unchanged; and two prompts built from the same
\* input with the same template are the same.
C15_TrimmedHeadMarkerTail ==
  /\ \A e \in Endpoints :
       qresult[e].built =>
         IF qbody.len > 500000
         THEN /\ Embedded(e) = <<Piece(0, 100000), OmissionMarker,
                                 Piece(qbody.len - 100000, qbody.len)>>
              /\ Embedded(e) # <<Piece(0, qbody.len)>>
         ELSE Embedded(e) = <<Piece(0, qbody.len)>>
  /\ \A e1, e2 \in Endpoints :
       (/\ qresult[e1].built
        /\ qresult[e2].built
        /\ qresult[e1].prompt.template = qresult[e2].prompt.template)
         => qresult[e1].prompt = qresult[e2].prompt

\* C15 witness: a text one character over the threshold was trimmed for
\* a bank prompt and for a credit-card prompt.
C15_Witness ==
  /\ qbody.len = 500001
  /\ qresult["analyze-text"].built
  /\ qresult["process-pdf"].built
  /\ qresult["analyze-text"].prompt.template = "bank"
  /\ qresult["process-pdf"].prompt.template = "credit"
  /\ Len(Embedded("analyze-text")) = 3
  /\ Len(Embedded("process-pdf")) = 3

\* C16: a process-pdf request whose body carries (besides the session
\* id) documentType 'bank' is analysed with the bank-statement template
\* and echoes documentType 'bank'; with 'credit' the credit-card template
\* is used and 'credit' echoed.
C16_DocumentTypeSelectsTemplate ==
  (/\ qresult["process-pdf"].built
   /\ qbody.documentType \in {"bank", "credit"}
   /\ qbody.type = "absent")
    => (/\ qresult["process-pdf"].prompt.template = qbody.documentType
        /\ qresult["process-pdf"].documentType = qbody.documentType)

-----------------------------------------------------------------------------
(* Claims about the spreadsheet (checked under SpecReport) *)

\* the data rows of the sheets of the answer's workbook named `name`
RowsOfSheet(name) ==
  {ranswer.workbook.sheets[i].rows :
     i \in {j \in DOMAIN ranswer.workbook.sheets :
              ranswer.workbook.sheets[j].name = name}}

SheetNames ==
  {ranswer.workbook.sheets[i].name : i \in DOMAIN ranswer.workbook.sheets}

\* the request was answered and its analysis was there; the write of the
\* buffer did not fail
Rendered == ranswer # NotRendered /\ rbody.hasAnalysis /\ ranswer.fault # "write"

\* C17: whatever fields of the analysis are missing or malformed,
\* generate-report answers with a spreadsheet, never 500, and the workbook
\* has the fixed sheets of its document type.
C17_AlwaysASpreadsheet ==
  Rendered
    => (/\ ranswer.code = 200
        /\ SheetNames = IF rbody.documentType = "bank"
                        THEN {"All Transactions", "Summary"}
                        ELSE {"Transactions", "Subscriptions", "Summary"})

\* every cell of the row is a value of the entry or a '' / 0 default
Defaulted(row) == \A k \in DOMAIN row : row[k] # "unset"

\* C18: every value the renderer finds missing appears as a zero or
\* empty-string default: the Summary sheet has its fixed metric rows (five
\* for bank, three for credit) also when `summary` is absent, and every
\* transaction and subscription row has '' or 0 for each missing field.
C18_DefaultsEverywhere ==
  (Rendered /\ ranswer.code = 200)
    => (/\ \A rows \in RowsOfSheet("Summary") :
             LET metrics == {i \in DOMAIN rows : rows[i].metric \notin
                                                   {"''", "Category Breakdown",
                                                    "CATEGORY"}}
             IN  /\ Cardinality(metrics) =
                      IF rbody.documentType = "bank" THEN 5 ELSE 3
                 /\ rbody.analysis.summary # "full"
                      => \A i \in metrics : rows[i].value = "0"
        /\ \A name \in {"All Transactions", "Transactions", "Subscriptions"} :
             \A rows \in RowsOfSheet(name) :
               \A i \in DOMAIN rows : Defaulted(rows[i]))

\* C19: for a credit report whose analysis has an array of n
\* subscriptions, the workbook has one sheet named 'Subscriptions' with
\* exactly n data rows, row i made from entry i; when `subscriptions` is
\* missing or not an array the sheet has no data rows.
C19_OneRowPerSubscription ==
  (Rendered /\ ranswer.code = 200 /\ rbody.documentType = "credit")
    => LET subs == rbody.analysis.subscriptions IN
       /\ Cardinality(RowsOfSheet("Subscriptions")) = 1
       /\ \A rows \in RowsOfSheet("Subscriptions") :
            IF subs.kind = "array"
            THEN /\ Len(rows) = Len(subs.items)
                 /\ \A i \in 1..Len(rows) :
                      /\ DOMAIN rows[i] = {"merchant", "amount", "frequency",
                                           "category"}
                      /\ (subs.items[i] = "full") <=> (rows[i].merchant = "v")
            ELSE rows = <<>>

\* C19 witness: a credit report was rendered from two subscriptions, an
\* object with every field and then {}, and the sheet has the two rows in
\* that order.
C19_Witness ==
  /\ ranswer.code = 200
  /\ rbody.documentType = "credit"
  /\ rbody.analysis.subscriptions.kind = "array"
  /\ rbody.analysis.subscriptions.items = <<"full", "empty">>
  /\ \E rows \in RowsOfSheet("Subscriptions") :
       Len(rows) = 2 /\ rows[1].merchant = "v" /\ rows[2].merchant = "unset"

-----------------------------------------------------------------------------
(* Claims about the sweep (checked under Spec and SpecLive) *)

\* C21: when a run of the sweep ends, no entry is left in the store whose
\* age at the time of the run exceeded one hour, also when a request
\* handler removed an entry while the run was under way.
C21_SweepDeletesEveryOldEntry ==
  [][(sweep.pc # "idle" /\ sweep'.pc = "idle")
       => \A sid \in SessionIds :
            store'[sid] # NoFile => sweep.snap - store'[sid].mtime <= SweepAge
    ]_vars

\* the blob under sid was written early enough for the clock of the run
\* to take it past the age of one hour
Ageable(sid) ==
  /\ store[sid] # NoFile
  /\ store[sid].mtime + SweepAge < MaxTicks * TickMs

\* C22: with the timer firing again and again, every stored blob (one
\* that no process-pdf request deletes included, such as the encrypted
\* original that unlock-pdf leaves behind) is eventually removed from the
\* store.
C22_OrphansEventuallySwept ==
  <>[](\A sid \in SessionIds : ~Ageable(sid))

\* C22 witness: the encrypted original of an unlocked session is gone
\* from the store though no process-pdf request deleted it.
C22_Witness ==
  \E sid \in SessionIds :
    /\ ~sid.unlocked
    /\ writes[sid] = 1
    /\ writes[Unlocked(sid)] >= 1
    /\ store[sid] = NoFile
    /\ \A e \in unlinked : e[1] # sid

-----------------------------------------------------------------------------
(* Claims about the paths of the handlers (checked under Spec) *)

\* the step ends the text extraction of the process-pdf request r
LeavesExtract(r) ==
  /\ r.op = "process-pdf"
  /\ r.pc = "extract"
  /\ CopiesIn(r, inflight') < CopiesIn(r, inflight)

\* the step takes the process-pdf request r to the call of the model
EntersModel(r) ==
  /\ last' = NoAnswer
  /\ CopiesIn([r EXCEPT !.pc = "model"], inflight')
       > CopiesIn([r EXCEPT !.pc = "model"], inflight)

\* C23: a process-pdf request whose blob is gone from the store when the
\* handler comes to delete it (the delete fails) goes on to the call of
\* the model like one whose delete succeeds, and its answer is what the
\* model call and the parsing alone give: 200 with the analysis of the
\* answer text, or 500 with the message of the failed call.
C23_DeleteFailureSwallowed ==
  /\ [][\A r \in BagToSet(inflight) :
          (LeavesExtract(r) /\ store[r.sid] = NoFile /\ last'.fault # "extract")
            => (EntersModel(r) /\ store' = store)]_vars
  /\ [](last.op = "process-pdf" /\ last.code # 404
          => \/ /\ last.fault = "none"
                /\ last.code = 200
                /\ last.status = "success"
                /\ last.analysis = ProcessPdfAnalysis(last.text)
             \/ /\ last.fault \in {"extract", "model"}
                /\ last.code = 500
                /\ last.details = last.error)

\* C23 witness: process-pdf answered 200 with an analysis though the
\* delete of its blob failed: the blob it had read was removed by the
\* sweep, no process-pdf request deleted it.
C23_Witness ==
  /\ last.op = "process-pdf"
  /\ last.code = 200
  /\ last.analysis = ProcessPdfAnalysis(last.text)
  /\ <<last.sid, last.buf.ver>> \notin unlinked
  /\ store[last.sid] = NoFile

\* C24: /api/settings answers 200 with status 'success' whatever the
\* body holds, and the request changes nothing the server keeps: the
\* store, the ids handed out, the requests in flight, the sweep.  The
\* response and the state after it hold nothing of the email.
C24_SettingsPersistsNothing ==
  [][(last = NoAnswer /\ last'.op = "settings")
       => (/\ last'.code = 200
           /\ last'.status = "success"
           /\ last' = [NoAnswer EXCEPT !.op = "settings", !.code = 200,
                                       !.status = "success"]
           /\ <<store, nextSession, histVars, inflight, now, sweep>>'
                = <<store, nextSession, histVars, inflight, now, sweep>>)
    ]_vars

\* C24 witness: a settings request was acknowledged while the store held
\* a blob and another request was in flight.
C24_Witness ==
  /\ last.op = "settings"
  /\ last.status = "success"
  /\ \E sid \in SessionIds : store[sid] # NoFile
  /\ InFlight # {}

\* the blob that the process-pdf request r read is not in the store
BlobGone(sid, buf) ==
  store[sid] = NoFile \/ store[sid].ver # buf.ver

\* C25: process-pdf deletes the blob when the extraction has succeeded
\* and before it calls the model.  The step that ends a successful
\* extraction leaves no file under the session id and takes the request
\* to the model call; while the model call is pending, and when its
\* failure is answered 500, the blob is gone, and a process-pdf request
\* that then arrives for the id is answered 404.  An extraction that
\* throws is answered 500 by a step that leaves the store as it is.
C25_DeletedBeforeModelCall ==
  /\ [][\A r \in BagToSet(inflight) :
          LeavesExtract(r)
            => IF last'.fault = "extract"
               THEN last'.code = 500 /\ store' = store
               ELSE store'[r.sid] = NoFile /\ EntersModel(r)]_vars
  /\ [](\A r \in InFlight : r.pc = "model" => BlobGone(r.sid, r.buf))
  /\ []((last.op = "process-pdf" /\ last.fault = "model")
          => (last.code = 500 /\ BlobGone(last.sid, last.buf)))
  /\ [][(/\ requests' = requests + 1
         /\ last'.op = "process-pdf"
         /\ last'.sid \in SessionIds
         /\ store[last'.sid] = NoFile)
          => last'.code = 404]_vars

\* C25 witness: the model call of a process-pdf request failed and was
\* answered 500 with its message, after the request had deleted the blob
\* it read: the store holds nothing under the session id.
C25_Witness ==
  /\ last.op = "process-pdf"
  /\ last.fault = "model"
  /\ last.code = 500
  /\ last.details = last.error
  /\ <<last.sid, last.buf.ver>> \in unlinked
  /\ store[last.sid] = NoFile

\* C26: unlock-pdf answers 401 'invalid_password' only when the open of
\* the PDF with the supplied password failed; a failure of the
\* re-serialisation or of the save after a successful open is answered
\* 500, never 'invalid_password'.
C26_InvalidPasswordOnlyForOpen ==
  /\ (last.op = "unlock-pdf" /\ last.code = 401) => last.fault = "load"
  /\ (last.op = "unlock-pdf" /\ last.fault = "save")
       => (last.code = 500 /\ last.status # "invalid_password")

\* the number of requests suspended at an await
Suspended(b) == BagCardinality(b)

\* C27: every request gets exactly one response, on every path of its
\* handler.  The step in which a request arrives either answers it or
\* suspends it at an await, never both; every later step of a suspended
\* request either keeps it suspended without an answer or ends it with
\* one answer; no step ends a request without an answer, and no answer is
\* given that does not end a request.
C27_ExactlyOneResponse ==
  [][/\ requests' = requests + 1
          => \/ last' # NoAnswer /\ inflight' = inflight
             \/ last' = NoAnswer /\ Suspended(inflight') = Suspended(inflight) + 1
     /\ requests' = requests
          => \/ last' = last /\ Suspended(inflight') = Suspended(inflight)
             \/ last' = NoAnswer /\ last # NoAnswer /\ inflight' = inflight
             \/ /\ last = NoAnswer
                /\ last' # NoAnswer
                /\ Suspended(inflight') = Suspended(inflight) - 1
                /\ \E r \in BagToSet(inflight) :
                     /\ CopiesIn(r, inflight') = CopiesIn(r, inflight) - 1
                     /\ r.op = last'.op
                     /\ r.sid = last'.sid
    ]_vars

\* C27 witness: the save of the inner try of check-pdf failed, the inner
\* catch took the failure for an encrypted PDF, saved again and sent the
\* one response of the request.
C27_Witness ==
  /\ last.op = "check-pdf"
  /\ last.fault = "save"
  /\ last.code = 200
  /\ last.status = "password_required"
  /\ store[last.sessionId] # NoFile

\* the step is one of the sweep and removes the blob stored under sid
SweepRemoves(sid) ==
  /\ sweep' # sweep
  /\ store[sid] # NoFile
  /\ store'[sid] = NoFile

\* C28: a blob that the sweep removes was written more than one hour
\* before: a blob stored by check-pdf or unlock-pdf stays available to
\* unlock-pdf and process-pdf for at least one hour after its write
\* unless a process-pdf request consumes it.
C28_SweepSparesFreshBlobs ==
  [][\A sid \in SessionIds :
       SweepRemoves(sid) => now - store[sid].mtime > SweepAge]_vars

-----------------------------------------------------------------------------
(* A further claim about the prompts (checked under SpecPrompt) *)

\* the rule a built prompt gives for the transactions array
OnlyLargest(e) == qresult[e].prompt.onlyLargest

\* C29: the bank-statement prompt asks for 'ONLY the 50 largest
\* transactions' exactly when the text holds more than 200 dates or is
\* longer than 100000 characters, and for 'ALL transactions' otherwise,
\* so that two texts embedded alike may get different prompts; the
\* credit-card prompt has no such rule and is given by the embedded text.
C29_LargeStatementSwitch ==
  /\ \A e \in Endpoints :
       qresult[e].built =>
         IF qresult[e].prompt.template = "bank"
         THEN OnlyLargest(e) = (qbody.dates > 200 \/ qbody.len > 100000)
         ELSE qresult[e].prompt =
                [template |-> "credit", onlyLargest |-> FALSE,
                 text |-> Embedded(e)]
  /\ (qbody.dates = 200 /\ qbody.len <= 100000)
       => LET few == GetBankStatementPrompt(qbody.len, qbody.dates)
              many == GetBankStatementPrompt(qbody.len, qbody.dates + 1)
          IN  few.text = many.text /\ few # many

\* C29 witness: a text of exactly 100000 characters with 201 dates got a
\* bank prompt asking for the 50 largest transactions only, and a
\* credit-card prompt without the rule.
C29_Witness ==
  /\ qbody.len = 100000
  /\ qbody.dates = 201
  /\ qresult["analyze-text"].built
  /\ qresult["process-pdf"].built
  /\ qresult["analyze-text"].prompt.template = "bank"
  /\ OnlyLargest("analyze-text")
  /\ qresult["process-pdf"].prompt.template = "credit"
  /\ ~OnlyLargest("process-pdf")

-----------------------------------------------------------------------------
(* A claim about which handler touches the store (checked under Spec) *)

CheckOps == {"check-pdf", "check-pdf-url"}

\* the step answers a request of one of the ops
Answers(ops) == last = NoAnswer /\ last'.op \in ops

\* the step writes a file under sid
Writes(sid) == store'[sid] # NoFile /\ store'[sid] # store[sid]

\* the step removes the file under sid
Removes(sid) == store[sid] # NoFile /\ store'[sid] = NoFile

\* C30: analyze-text and generate-report neither read, write nor delete
\* the store; a check-pdf or check-pdf-url request answered 400 or 500
\* leaves the store as it was; a file is written only by the step of a
\* check answered 200 (either verdict) or of an unlock-pdf answered
\* 'success', under the session id of that answer; a file is removed
\* only by a process-pdf request that ends its extraction or by the
\* unlink of the sweep.
C30_WhoTouchesTheStore ==
  [][/\ Answers({"analyze-text", "generate-report"})
          => (/\ store' = store
              /\ histVars' = histVars
              /\ inflight' = inflight
              /\ last'.buf = NoFile)
     /\ (Answers(CheckOps) /\ last'.code \in {400, 500})
          => (store' = store /\ writes' = writes)
     /\ \A sid \in SessionIds :
          (Writes(sid) \/ writes'[sid] # writes[sid])
            => (/\ last'.code = 200
                /\ last'.sessionId = sid
                /\ \/ Answers(CheckOps)
                      /\ last'.status \in {"success", "password_required"}
                   \/ Answers({"unlock-pdf"}) /\ last'.status = "success")
     /\ \A sid \in SessionIds :
          Removes(sid)
            => \/ sweep.pc = "unlink" /\ sweep.cur = sid /\ sweep' # sweep
               \/ \E r \in BagToSet(inflight) : LeavesExtract(r) /\ r.sid = sid
    ]_vars

\* C30 witness: check-pdf-url opened the bytes, its save failed and it
\* answered 500: nothing was written under the id generated for it,
\* while the store holds the blob of an earlier request.
C30_Witness ==
  /\ last.op = "check-pdf-url"
  /\ last.code = 500
  /\ last.fault = "save"
  /\ nextSession >= 2
  /\ \A u \in BOOLEAN : store[[n |-> nextSession, unlocked |-> u]] = NoFile
  /\ writes[[n |-> nextSession, unlocked |-> FALSE]] = 0
  /\ \E sid \in SessionIds : store[sid] # NoFile

=============================================================================
